---- MODULE Spec2Model ----
(***************************************************************************)
(* Model of the API client of music-event-finder-frontend (lib/api.ts,     *)
(* kept here as src/unnamed/part_000): the ApiClient methods and the       *)
(* normalizeExternalUrl utility.                                           *)
(*                                                                         *)
(* An invocation of an async method is a sequence of steps: the call runs  *)
(* up to its first `await this.fetchJson(...)` (the request is issued),    *)
(* and every time the awaited request settles the method runs up to its    *)
(* next await or to its return/throw.                                      *)
(*                                                                         *)
(* Items (Artist, Event) are modelled by integers: an item the server      *)
(* sends by its id (>= 0), the mock item with id "n" by -n, so that a mock *)
(* item is never taken for a server item that carries the same id.  The    *)
(* client reads no other field of a server item; the fields of the mock    *)
(* items that the search fallback reads are given by ArtistName etc.       *)
(* Strings the client inspects are sequences of one-character strings.     *)
(***************************************************************************)
EXTENDS Integers, Sequences, FiniteSets, TLC

(***************************************************************************)
(* Program constants.                                                      *)
(***************************************************************************)
\* directLimits with one more size to try
directLimits_Six == <<500, 400, 300, 250, 200, 100>>

directLimits == <<500, 400, 300, 250, 200>>
artistLimits == <<50, 100, 250, 500>>
maxTotal == 1000
PageSizeCap == 200
PageLoopEnd == 10
DefaultTopLimit == 20
strategies == <<"offset", "page0", "page1">>

(***************************************************************************)
(* Bounds of the environment (the remote API and the callers' arguments).  *)
(***************************************************************************)
ShortLen == 3
SlowDiv == 4
MaxId == 5
\* the largest page the server of the two interleaved invocations serves
MaxServed == 200
\* the number of keystrokes followed in a search box
MaxKeys == 3

Min(a, b) == IF a < b THEN a ELSE b
Max(a, b) == IF a > b THEN a ELSE b

(***************************************************************************)
(* JavaScript values.  A value is [k, v]: k its kind, v its content (a     *)
(* sequence, so that values of different kinds can be compared).           *)
(***************************************************************************)
Undefined == "<undefined>"
JsUndefined == [k |-> "undefined", v |-> <<>>]
JsNull == [k |-> "null", v |-> <<>>]
\* an object that is no array (no length, not iterable), content unread
JsObj == [k |-> "obj", v |-> <<>>]
\* an array of items
JsArr(s) == [k |-> "arr", v |-> s]
\* a string, as the sequence of its characters
JsStr(s) == [k |-> "str", v |-> s]
\* a single item, a number, an object with the fields of record r, an Error
JsItem(id) == [k |-> "item", v |-> <<id>>]
JsNum(n) == [k |-> "num", v |-> <<n>>]
JsRec(r) == [k |-> "rec", v |-> <<r>>]
JsError(msg) == [k |-> "error", v |-> <<msg>>]

\* the two ways `await this.fetchJson(url)` ends: it throws, or returns the body
Fail == [k |-> "fail", v |-> <<>>]

(***************************************************************************)
(* The mock datasets.                                                      *)
(***************************************************************************)
mockArtists == <<-1, -2, -3, -4>>
mockEvents == <<-1, -2>>

\* the `id` field of a mock item
MockId(a) == 0 - a

ArtistName(a) ==
    CASE a = -1 ->
           <<"A", "r", "c", "t", "i", "c", " ", "M", "o", "n", "k", "e", "y", "s">>
      [] a = -2 ->
           <<"T", "a", "m", "e", " ", "I", "m", "p", "a", "l", "a">>
      [] a = -3 ->
           <<"T", "h", "e", " ", "S", "t", "r", "o", "k", "e", "s">>
      [] a = -4 ->
           <<"M", "a", "c", " ", "D", "e", "M", "a", "r", "c", "o">>

ArtistGenres(a) ==
    CASE a = -1 ->
           <<"i", "n", "d", "i", "e", " ", "r", "o", "c", "k", ",", " ", "a", "l", "t", "e", "r", "n", "a", "t", "i", "v", "e", " ", "r", "o", "c", "k">>
      [] a = -2 ->
           <<"p", "s", "y", "c", "h", "e", "d", "e", "l", "i", "c", " ", "r", "o", "c", "k", ",", " ", "i", "n", "d", "i", "e", " ", "p", "o", "p">>
      [] a = -3 ->
           <<"i", "n", "d", "i", "e", " ", "r", "o", "c", "k", ",", " ", "g", "a", "r", "a", "g", "e", " ", "r", "o", "c", "k">>
      [] a = -4 ->
           <<"i", "n", "d", "i", "e", " ", "p", "o", "p", ",", " ", "l", "o", "-", "f", "i">>

EventName(a) ==
    CASE a = -1 ->
           <<"A", "r", "c", "t", "i", "c", " ", "M", "o", "n", "k", "e", "y", "s", " ", "W", "o", "r", "l", "d", " ", "T", "o", "u", "r">>
      [] a = -2 ->
           <<"T", "a", "m", "e", " ", "I", "m", "p", "a", "l", "a", ":", " ", "C", "u", "r", "r", "e", "n", "t", "s", " ", "T", "o", "u", "r">>

EventVenue(a) ==
    CASE a = -1 ->
           <<"M", "a", "d", "i", "s", "o", "n", " ", "S", "q", "u", "a", "r", "e", " ", "G", "a", "r", "d", "e", "n">>
      [] a = -2 ->
           <<"T", "h", "e", " ", "F", "o", "r", "u", "m">>

EventCity(a) ==
    CASE a = -1 ->
           <<"N", "e", "w", " ", "Y", "o", "r", "k", ",", " ", "N", "Y">>
      [] a = -2 ->
           <<"L", "o", "s", " ", "A", "n", "g", "e", "l", "e", "s", ",", " ", "C", "A">>

toLowerCaseChar(c) ==
    CASE c = "A" -> "a"
      [] c = "B" -> "b"
      [] c = "C" -> "c"
      [] c = "D" -> "d"
      [] c = "E" -> "e"
      [] c = "F" -> "f"
      [] c = "G" -> "g"
      [] c = "H" -> "h"
      [] c = "I" -> "i"
      [] c = "J" -> "j"
      [] c = "K" -> "k"
      [] c = "L" -> "l"
      [] c = "M" -> "m"
      [] c = "N" -> "n"
      [] c = "O" -> "o"
      [] c = "P" -> "p"
      [] c = "Q" -> "q"
      [] c = "R" -> "r"
      [] c = "S" -> "s"
      [] c = "T" -> "t"
      [] c = "U" -> "u"
      [] c = "V" -> "v"
      [] c = "W" -> "w"
      [] c = "X" -> "x"
      [] c = "Y" -> "y"
      [] c = "Z" -> "z"
      [] OTHER -> c

(***************************************************************************)
(* String helpers of the search fallback.                                  *)
(***************************************************************************)
toLowerCase(s) == [j \in 1..Len(s) |-> toLowerCaseChar(s[j])]

\* hay.includes(needle)
includes(hay, needle) ==
    \E j \in 0..(Len(hay) - Len(needle)) :
        \A n \in 1..Len(needle) : hay[j + n] = needle[n]

\* arr.slice(0, end)
slice0(arr, end) ==
    LET e == IF end < 0 THEN Max(Len(arr) + end, 0) ELSE Min(end, Len(arr))
    IN SubSeq(arr, 1, e)

\* findById with a predicate that accepts every item
findById_Any(arr, id) == arr

\* arr.find((a) => a.id === id): the items with that id, in order; find
\* gives the first of them, and undefined when there is none
findById(arr, id) == SelectSeq(arr, LAMBDA a : MockId(a) = id)

artistMatches(artist, query) ==
    \/ includes(toLowerCase(ArtistName(artist)), toLowerCase(query))
    \/ includes(toLowerCase(ArtistGenres(artist)), toLowerCase(query))

eventMatches(event, query) ==
    \/ includes(toLowerCase(EventName(event)), toLowerCase(query))
    \/ includes(toLowerCase(EventVenue(event)), toLowerCase(query))
    \/ includes(toLowerCase(EventCity(event)), toLowerCase(query))

(***************************************************************************)
(* Requests: the endpoint string handed to fetchJson, split into its       *)
(* parts, and tagged with the place that issued it (strat, i).             *)
(***************************************************************************)
Req(path, limit, key, val, strat, i) ==
    [path |-> path, limit |-> limit, key |-> key, val |-> val, strat |-> strat, i |-> i]

\* the URL of a request: the request without its tags
Url(r) == <<r.path, r.limit, r.key, r.val>>

\* strategies[si].buildUrl(i)
buildUrl(si, i, pageSize) ==
    CASE strategies[si] = "offset" ->
           Req("/events/top", pageSize, "offset", i * pageSize, strategies[si], i)
      [] strategies[si] = "page0" ->
           Req("/events/top", pageSize, "page", i, strategies[si], i)
      [] strategies[si] = "page1" ->
           Req("/events/top", pageSize, "page", i + 1, strategies[si], i)

(***************************************************************************)
(* The remote API: what the network may answer a request with.             *)
(***************************************************************************)
Arr(a, n) == [j \in 1..n |-> a + j - 1]
DupArr(a, n) == [j \in 1..n |-> a + ((j - 1) % ((n + 1) \div 2))]

ProbeArrays(limit) ==
    {Arr(0, n) : n \in {0, ShortLen, limit - 1, limit}}
        \cup {DupArr(0, n) : n \in {ShortLen, limit}}

PageStarts(req) ==
    IF req.key = "offset"
    THEN {0, req.val, req.val \div SlowDiv}
    ELSE {0, (req.val - 1) * req.limit, (req.val * req.limit) \div SlowDiv}

PageArrays(req) ==
    {Arr(a, n) : a \in PageStarts(req), n \in {0, ShortLen, req.limit}}
        \cup {DupArr(a, ShortLen) : a \in PageStarts(req)}

HealthBodies ==
    {JsRec([status |-> s, message |-> m]) :
        s \in {Undefined, "UP", "DOWN"},
        m \in {Undefined, "", "Music Event Finder API is running"}}

StatsBodies == {JsRec([artists |-> a, events |-> e]) : a \in {0, 7}, e \in {0, 9}}

Bodies(req) ==
    {JsNull} \cup
    CASE req.path = "/health" -> HealthBodies
      [] req.path = "/stats" -> StatsBodies
      [] req.path \in {"/artists/top", "/events/top"} ->
           {JsObj} \cup {JsArr(s) : s \in IF req.key = "" THEN ProbeArrays(req.limit)
                                                          ELSE PageArrays(req)}
      [] req.path \in {"/artists/search", "/events/search"} ->
           {JsArr(<<>>), JsArr(Arr(0, ShortLen))}
      [] req.path \in {"/artists/{id}", "/events/{id}"} -> {JsItem(req.val)}

BadJson == [k |-> "badjson", v |-> <<>>]

Net(kind, status, body) == [kind |-> kind, status |-> status, body |-> body]

NetOutcomes(req) ==
    {Net("reject", 0, JsNull), Net("timeout", 0, JsNull),
     Net("http", 500, JsNull), Net("http", 200, BadJson)}
        \cup {Net("http", 200, b) : b \in Bodies(req)}

\* response.ok
ok(status) == status >= 200 /\ status <= 299

\* fetchJson: one GET with a 5 s timeout; the body, or Fail when it throws
fetchJson(net) ==
    IF net.kind \in {"reject", "timeout"} THEN Fail
    ELSE IF ~ok(net.status) THEN Fail
    ELSE IF net.body.k = "badjson" THEN Fail
    ELSE net.body

(***************************************************************************)
(* collectedMap: a Map from id to item, kept as the sequence of its keys   *)
(* in insertion order (the order Map.values() iterates in).                *)
(***************************************************************************)
Keys(m) == {m[j] : j \in 1..Len(m)}

\* SetIfAbsent without the `has` test
SetIfAbsent_NoCheck(st, id) == [m |-> Append(st.m, id), keys |-> st.keys \cup {id}]

\* one iteration of the loop body: if (!collectedMap.has(id)) collectedMap.set(id, ev)
SetIfAbsent(st, id) ==
    IF id \in st.keys THEN st
    ELSE [m |-> Append(st.m, id), keys |-> st.keys \cup {id}]

\* the iterations lo..hi of `for (const ev of arr)`, in order (the range is
\* halved so that the evaluation depth stays logarithmic in its length)
RECURSIVE MergeRange(_, _, _, _)
MergeRange(st, arr, lo, hi) ==
    IF lo > hi THEN st
    ELSE IF lo = hi THEN SetIfAbsent(st, arr[lo])
    ELSE LET mid == (lo + hi) \div 2
             left == MergeRange(st, arr, lo, mid)
         IN IF Len(left.m) >= Len(st.m) THEN MergeRange(left, arr, mid + 1, hi)
            ELSE left

\* merge that puts the new items in front of the collected ones
merge_Front(m, arr) ==
    LET full == MergeRange([m |-> m, keys |-> Keys(m)], arr, 1, Len(arr)).m
    IN SubSeq(full, Len(m) + 1, Len(full)) \o m

\* const merge = (arr) => { for (const ev of arr) ... }
merge(m, arr) == MergeRange([m |-> m, keys |-> Keys(m)], arr, 1, Len(arr)).m

\* new Map(base.map((e) => [e.id, e])): a repeated key keeps its first position
NewMap(base) == MergeRange([m |-> <<>>, keys |-> {}], base, 1, Len(base)).m

(***************************************************************************)
(* State.  One invocation of one client method is followed from its call   *)
(* to its end (the client keeps no state between invocations).             *)
(*   op        the method invoked ("none" before the call)                 *)
(*   arg       its argument (limit, id or query)                           *)
(*   pc        "idle", "await" (suspended on the last request of reqs),    *)
(*             "done"                                                      *)
(*   reqs      the requests issued so far, in order                        *)
(*   net       how the last settled request ended on the network           *)
(*   got       what fetchJson gave for it (Fail when it threw)             *)
(*   allFailed no fetchJson of the invocation has returned so far          *)
(*   out       the outcome of the invocation: a returned value or an error *)
(*   ev, ar    the local variables of getAllEvents and of getAllArtists    *)
(*   nSettled  the number of requests of the invocation that have settled  *)
(*             (resolved, failed or timed out)                             *)
(* Two invocations of getAllEvents that run interleaved on the one         *)
(* apiClient are followed in calls (see the end of the getAllEvents part). *)
(* The React state of a mounted search box and its searches in flight are  *)
(* held in box (see the part on the search boxes).                         *)
(***************************************************************************)
VARIABLES op, arg, pc, reqs, net, got, allFailed, out, ev, ar, nSettled, calls, box

one == <<op, arg, pc, reqs, net, got, allFailed, out, ev, ar, nSettled>>

vars == <<op, arg, pc, reqs, net, got, allFailed, out, ev, ar, nSettled, calls, box>>

NoOut == [k |-> "none", v |-> JsUndefined]
Return(val) == [k |-> "return", v |-> val]
Throw(msg) == [k |-> "throw", v |-> JsError(msg)]

EvInit == [phase |-> "none", li |-> 0, base |-> JsArr(<<>>), pageSize |-> 0,
           collectedMap |-> <<>>, si |-> 0, i |-> 0, success |-> FALSE,
           strategyUsed |-> "null"]

ArInit == [li |-> 0, last |-> JsArr(<<>>)]

\* an invocation of getAllEvents that has not been called yet: its position,
\* requests, outcome and locals, and the results its requests have given
NotCalled == [pc |-> "idle", reqs |-> <<>>, out |-> NoOut, ev |-> EvInit, resps |-> <<>>]

\* a search box before its component is mounted: the useState initial values
\* (items is the `events` or `artists` state), no search in flight, no
\* keystroke yet
BoxInit ==
    [comp |-> "none", items |-> <<>>, searchQuery |-> <<>>, filtered |-> JsArr(<<>>),
     searchLoading |-> FALSE, pending |-> <<>>, keys |-> 0]

Init ==
    /\ op = "none"
    /\ arg = JsUndefined
    /\ pc = "idle"
    /\ reqs = <<>>
    /\ net = [kind |-> "none", status |-> 0]
    /\ got = [k |-> "none", v |-> <<>>]
    /\ allFailed = TRUE
    /\ out = NoOut
    /\ ev = EvInit
    /\ ar = ArInit
    /\ nSettled = 0
    /\ calls = [p \in {1, 2} |-> NotCalled]
    /\ box = BoxInit

\* the call of method `name`: it runs to its first fetchJson
Call(name, a, req) ==
    /\ pc = "idle"
    /\ op' = name
    /\ arg' = a
    /\ pc' = "await"
    /\ reqs' = <<req>>
    /\ UNCHANGED <<net, got, allFailed, out, nSettled, calls, box>>

\* the pending request settles with network outcome n
Settle(n) ==
    /\ net' = [kind |-> n.kind, status |-> n.status]
    /\ got' = fetchJson(n)
    /\ allFailed' = (allFailed /\ fetchJson(n).k = "fail")
    /\ nSettled' = nSettled + 1
    /\ UNCHANGED <<calls, box>>

\* a method with a single request ends with outcome o
End(o) ==
    /\ pc' = "done"
    /\ out' = o
    /\ UNCHANGED <<op, arg, reqs, ev, ar>>

Pending == reqs[Len(reqs)]

(***************************************************************************)
(* checkHealth                                                             *)
(***************************************************************************)
Disconnected == JsRec([status |-> "disconnected", message |-> "Java backend not accessible"])

\* response.message || "Backend is healthy"
HealthMessage(response) ==
    IF response.v[1].message = Undefined \/ response.v[1].message = ""
    THEN "Backend is healthy"
    ELSE response.v[1].message

\* the body of checkHealth after its await; reading `.message` of null throws
\* inside the try block
checkHealth(r) ==
    IF r.k = "fail" THEN Return(Disconnected)
    ELSE IF r.k = "null" THEN Return(Disconnected)
    ELSE Return(JsRec([status |-> "connected", message |-> HealthMessage(r)]))

CheckHealth_Call ==
    /\ Call("checkHealth", JsUndefined, Req("/health", 0, "", 0, "", 0))
    /\ UNCHANGED <<ev, ar>>

CheckHealth_Resume ==
    /\ op = "checkHealth" /\ pc = "await"
    /\ \E n \in NetOutcomes(Pending) : Settle(n) /\ End(checkHealth(fetchJson(n)))

(***************************************************************************)
(* getStats, getTopArtists, getTopEvents                                   *)
(***************************************************************************)
\* getStats that lets the error of its request through
getStats_Rethrow(r) == IF r.k = "fail" THEN Throw("HTTP error!") ELSE Return(r)

getStats(r) ==
    IF r.k = "fail"
    THEN Return(JsRec([artists |-> Len(mockArtists), events |-> Len(mockEvents)]))
    ELSE Return(r)

GetStats_Call ==
    /\ Call("getStats", JsUndefined, Req("/stats", 0, "", 0, "", 0))
    /\ UNCHANGED <<ev, ar>>

GetStats_Resume ==
    /\ op = "getStats" /\ pc = "await"
    /\ \E n \in NetOutcomes(Pending) : Settle(n) /\ End(getStats(fetchJson(n)))

TopLimits == {-1, 0, 2, DefaultTopLimit}

getTopArtists(limit, r) ==
    IF r.k = "fail" THEN Return(JsArr(slice0(mockArtists, limit))) ELSE Return(r)

GetTopArtists_Call ==
    /\ \E limit \in TopLimits :
         Call("getTopArtists", JsNum(limit), Req("/artists/top", limit, "", 0, "", 0))
    /\ UNCHANGED <<ev, ar>>

GetTopArtists_Resume ==
    /\ op = "getTopArtists" /\ pc = "await"
    /\ \E n \in NetOutcomes(Pending) : Settle(n) /\ End(getTopArtists(arg.v[1], fetchJson(n)))

getTopEvents(limit, r) ==
    IF r.k = "fail" THEN Return(JsArr(slice0(mockEvents, limit))) ELSE Return(r)

GetTopEvents_Call ==
    /\ \E limit \in TopLimits :
         Call("getTopEvents", JsNum(limit), Req("/events/top", limit, "", 0, "", 0))
    /\ UNCHANGED <<ev, ar>>

GetTopEvents_Resume ==
    /\ op = "getTopEvents" /\ pc = "await"
    /\ \E n \in NetOutcomes(Pending) : Settle(n) /\ End(getTopEvents(arg.v[1], fetchJson(n)))

(***************************************************************************)
(* getArtist, getEvent                                                     *)
(***************************************************************************)
Ids == 0..MaxId

getArtist(id, r) ==
    IF r.k # "fail" THEN Return(r)
    ELSE LET artist == findById(mockArtists, id)
         IN IF Len(artist) = 0 THEN Throw("Artist not found")
            ELSE Return(JsItem(artist[1]))

GetArtist_Call ==
    /\ \E id \in Ids : Call("getArtist", JsNum(id), Req("/artists/{id}", 0, "id", id, "", 0))
    /\ UNCHANGED <<ev, ar>>

GetArtist_Resume ==
    /\ op = "getArtist" /\ pc = "await"
    /\ \E n \in NetOutcomes(Pending) : Settle(n) /\ End(getArtist(arg.v[1], fetchJson(n)))

getEvent(id, r) ==
    IF r.k # "fail" THEN Return(r)
    ELSE LET event == findById(mockEvents, id)
         IN IF Len(event) = 0 THEN Throw("Event not found")
            ELSE Return(JsItem(event[1]))

GetEvent_Call ==
    /\ \E id \in Ids : Call("getEvent", JsNum(id), Req("/events/{id}", 0, "id", id, "", 0))
    /\ UNCHANGED <<ev, ar>>

GetEvent_Resume ==
    /\ op = "getEvent" /\ pc = "await"
    /\ \E n \in NetOutcomes(Pending) : Settle(n) /\ End(getEvent(arg.v[1], fetchJson(n)))

(***************************************************************************)
(* searchArtists, searchEvents                                             *)
(***************************************************************************)
Queries ==
    {<<>>,
     <<"a", "r", "c", "t", "i", "c">>,
     <<"R", "O", "C", "K">>,
     <<"T", "o", "u", "r">>,
     <<"n", "e", "w", " ", "y", "o", "r", "k">>,
     <<"t", "h", "e", " ", "f">>,
     <<"z", "z">>,
     <<"i", "n", "d", "i", "e", " ", "p", "o", "p">>}

searchArtists(query, r) ==
    IF r.k # "fail" THEN Return(r)
    ELSE Return(JsArr(SelectSeq(mockArtists, LAMBDA a : artistMatches(a, query))))

SearchArtists_Call ==
    /\ \E q \in Queries : Call("searchArtists", JsStr(q), Req("/artists/search", 0, "q", q, "", 0))
    /\ UNCHANGED <<ev, ar>>

SearchArtists_Resume ==
    /\ op = "searchArtists" /\ pc = "await"
    /\ \E n \in NetOutcomes(Pending) : Settle(n) /\ End(searchArtists(arg.v, fetchJson(n)))

searchEvents(query, r) ==
    IF r.k # "fail" THEN Return(r)
    ELSE Return(JsArr(SelectSeq(mockEvents, LAMBDA e : eventMatches(e, query))))

SearchEvents_Call ==
    /\ \E q \in Queries : Call("searchEvents", JsStr(q), Req("/events/search", 0, "q", q, "", 0))
    /\ UNCHANGED <<ev, ar>>

SearchEvents_Resume ==
    /\ op = "searchEvents" /\ pc = "await"
    /\ \E n \in NetOutcomes(Pending) : Settle(n) /\ End(searchEvents(arg.v, fetchJson(n)))

(***************************************************************************)
(* getAllArtists                                                           *)
(***************************************************************************)
\* How a fetch-all method goes on after an await, as a value: the locals it
\* leaves (e of getAllEvents, a of getAllArtists) and where it stops.
\* return from a fetch-all method with `val`
Finish(val, e, a) ==
    [pc |-> "done", out |-> Return(val), ev |-> e, ar |-> a, req |-> <<>>]

\* Await that issues the request twice without awaiting the first
Await_Prefetch(req, e, a) ==
    [pc |-> "await", out |-> NoOut, ev |-> e, ar |-> a, req |-> <<req, req>>]

\* issue the next fetchJson and suspend
Await(req, e, a) ==
    [pc |-> "await", out |-> NoOut, ev |-> e, ar |-> a, req |-> <<req>>]

\* the running invocation goes on as k says
Apply(k) ==
    /\ pc' = k.pc
    /\ out' = k.out
    /\ reqs' = reqs \o k.req
    /\ ev' = k.ev
    /\ ar' = k.ar
    /\ UNCHANGED <<op, arg>>

\* if (!Array.isArray(data) || data.length < limit) break
ArtistsBreak(data, limit) == data.k # "arr" \/ Len(data.v) < limit

GetAllArtists_Call ==
    /\ Call("getAllArtists", JsUndefined, Req("/artists/top", artistLimits[1], "", 0, "direct", 1))
    /\ ar' = [ArInit EXCEPT !.li = 1]
    /\ UNCHANGED ev

\* getAllArtists that returns the data of the last successful request when a
\* later request fails
getAllArtists_KeepLast(r) ==
    IF r.k = "fail"
    THEN Finish(IF ar.li > 1 THEN ar.last ELSE JsArr(mockArtists), ev, ar)
    ELSE LET a1 == [ar EXCEPT !.last = r] IN
         IF ArtistsBreak(r, artistLimits[ar.li]) THEN Finish(a1.last, ev, a1)
         ELSE IF ar.li < Len(artistLimits)
         THEN Await(Req("/artists/top", artistLimits[ar.li + 1], "", 0, "direct", ar.li + 1),
                    ev, [a1 EXCEPT !.li = ar.li + 1])
         ELSE Finish(a1.last, ev, a1)

\* the body of getAllArtists after its await
getAllArtists(r) ==
    IF r.k = "fail" THEN Finish(JsArr(mockArtists), ev, ar)
    ELSE LET a1 == [ar EXCEPT !.last = r] IN
         IF ArtistsBreak(r, artistLimits[ar.li]) THEN Finish(a1.last, ev, a1)
         ELSE IF ar.li < Len(artistLimits)
         THEN Await(Req("/artists/top", artistLimits[ar.li + 1], "", 0, "direct", ar.li + 1),
                    ev, [a1 EXCEPT !.li = ar.li + 1])
         ELSE Finish(a1.last, ev, a1)

GetAllArtists_Resume ==
    /\ op = "getAllArtists" /\ pc = "await"
    /\ \E n \in NetOutcomes(Pending) :
         /\ Settle(n)
         /\ \E k \in {getAllArtists(fetchJson(n))} : Apply(k)

(***************************************************************************)
(* getAllEvents                                                            *)
(***************************************************************************)
\* the first request of getAllEvents and its locals when it is issued
FirstProbe == Req("/events/top", directLimits[1], "", 0, "direct", 1)
EvCalled == [EvInit EXCEPT !.phase = "probe", !.li = 1]

GetAllEvents_Call ==
    /\ Call("getAllEvents", JsUndefined, FirstProbe)
    /\ ev' = EvCalled
    /\ UNCHANGED ar

\* Array.from(collectedMap.values())
Result(e) == JsArr(e.collectedMap)

\* the strategy loop from the top of the body of `for (const strat ...)`,
\* or the end of the function when the strategies are used up
NextStrategy(e) ==
    IF e.si < Len(strategies)
    THEN Await(buildUrl(e.si + 1, 1, e.pageSize),
               [e EXCEPT !.si = e.si + 1, !.i = 1, !.success = FALSE], ar)
    ELSE Finish(Result(e), [e EXCEPT !.phase = "off"], ar)

\* AfterPages that goes on with the next strategy whatever `success` is
AfterPages_NoAdopt(e) == NextStrategy(e)

\* `if (success) { strategyUsed = strat.name; break }` after the page loop
AfterPages(e) ==
    IF e.success
    THEN Finish(Result(e), [e EXCEPT !.strategyUsed = strategies[e.si], !.phase = "off"], ar)
    ELSE NextStrategy(e)

\* Math.min(base.length, 200) || 200
PageSize(base) ==
    IF Min(Len(base), PageSizeCap) = 0 THEN PageSizeCap ELSE Min(Len(base), PageSizeCap)

\* if (collectedMap.size >= maxTotal)
BoundReached(size) == size >= maxTotal

\* BaseEmpty that never sees an empty base
BaseEmpty_Never(base) == FALSE

\* if (base.length === 0) return mockEvents
BaseEmpty(base) == Len(base) = 0

\* `if (collectedMap.size >= maxTotal) return ...`, else the strategy loop
Seeded(e1) ==
    IF BoundReached(Len(e1.collectedMap))
    THEN Finish(Result(e1), [e1 EXCEPT !.phase = "off"], ar)
    ELSE NextStrategy(e1)

\* from `if (base.length === 0)` to the first await of the strategy loop.
\* base null: `base.length` throws; base a plain object: `base.map` throws;
\* both end in the outer catch
AfterProbe(e) ==
    IF e.base.k # "arr" THEN Finish(JsArr(mockEvents), [e EXCEPT !.phase = "off"], ar)
    ELSE IF BaseEmpty(e.base.v)
    THEN Finish(JsArr(mockEvents), [e EXCEPT !.phase = "off"], ar)
    ELSE Seeded([e EXCEPT !.phase = "page", !.pageSize = PageSize(e.base.v),
                          !.collectedMap = NewMap(e.base.v)])

\* NextProbe that gives up after the first failure
NextProbe_GiveUp(e) == AfterProbe(e)

\* `continue` of the probe loop
NextProbe(e) ==
    IF e.li < Len(directLimits)
    THEN Await(Req("/events/top", directLimits[e.li + 1], "", 0, "direct", e.li + 1),
               [e EXCEPT !.li = e.li + 1], ar)
    ELSE AfterProbe(e)

\* IsShort that also takes a full response for the complete set
IsShort_Inclusive(data, limit) == Len(data) <= limit

\* IsShort that does not take an empty response for a short one
IsShort_NotEmpty(data, limit) == Len(data) > 0 /\ Len(data) < limit

\* IsShort with the bound off by one
IsShort_OffByOne(data, limit) == Len(data) < limit - 1

\* if (data.length < limit) return data
IsShort(data, limit) == Len(data) < limit

\* the body of the probe loop after its await.  data null: `data.length`
\* throws after `base = data`, the inner catch continues the loop; data a
\* plain object: `undefined < limit` is false, the loop is left
ProbeStep(e, r) ==
    IF r.k = "fail" THEN NextProbe(e)
    ELSE LET e1 == [e EXCEPT !.base = r] IN
         CASE r.k = "null" -> NextProbe(e1)
           [] r.k = "obj" -> AfterProbe(e1)
           [] r.k = "arr" ->
                IF IsShort(r.v, directLimits[e.li])
                THEN Finish(r, [e1 EXCEPT !.phase = "off"], ar)
                ELSE AfterProbe(e1)

GetAllEvents_ProbeResume ==
    /\ op = "getAllEvents" /\ pc = "await" /\ ev.phase = "probe"
    /\ \E n \in NetOutcomes(Pending) :
         /\ Settle(n)
         /\ \E k \in {ProbeStep(ev, fetchJson(n))} : Apply(k)

\* LastPage that takes no page for the last one
LastPage_Never(chunk, pageSize) == FALSE

\* if (chunk.length < pageSize) break
LastPage(chunk, pageSize) == Len(chunk) < pageSize

\* PageLoopContinues with `<=` for `<`
PageLoopContinues_Inclusive(i) == i <= PageLoopEnd

\* the test `i < 10` of the page loop
PageLoopContinues(i) == i < PageLoopEnd

\* PageFailed that skips the failed page and goes on with the next one
PageFailed_Skip(e) ==
    IF PageLoopContinues(e.i + 1)
    THEN Await(buildUrl(e.si, e.i + 1, e.pageSize), [e EXCEPT !.i = e.i + 1], ar)
    ELSE AfterPages(e)

\* `catch (e) { break }` of the page loop
PageFailed(e) == AfterPages(e)

\* StaleBreak that never breaks
StaleBreak_Never(before, after) == FALSE

\* if (after === before) break
StaleBreak(before, after) == after = before

\* the page loop from `const before = collectedMap.size` on, `merged` being
\* the collected set after merge(chunk)
Merged(e, chunk, merged) ==
    LET before == Len(e.collectedMap)
        e1 == [e EXCEPT !.collectedMap = merged]
        after == Len(merged)
        e2 == [e1 EXCEPT !.success = TRUE]
    IN IF StaleBreak(before, after) THEN AfterPages(e1)
       ELSE IF LastPage(chunk, e.pageSize) THEN AfterPages(e2)
       ELSE IF BoundReached(after) THEN AfterPages(e2)
       ELSE IF PageLoopContinues(e.i + 1)
            THEN Await(buildUrl(e.si, e.i + 1, e.pageSize), [e2 EXCEPT !.i = e.i + 1], ar)
            ELSE AfterPages(e2)

\* the body of the page loop after its await.  chunk null: `!chunk`; chunk a
\* plain object: merge throws on the first iteration, the inner catch breaks.
\* (The merged set is bound as the element of a singleton so that it is
\* computed once per step.)
PageStep(e, r) ==
    IF r.k = "fail" THEN PageFailed(e)
    ELSE IF r.k # "arr" THEN AfterPages(e)
    ELSE IF Len(r.v) = 0 THEN AfterPages(e)
    ELSE CHOOSE k \in {Merged(e, r.v, merged) : merged \in {merge(e.collectedMap, r.v)}} : TRUE

GetAllEvents_PageResume ==
    /\ op = "getAllEvents" /\ pc = "await" /\ ev.phase = "page"
    /\ \E n \in NetOutcomes(Pending) :
         /\ Settle(n)
         /\ \E k \in {PageStep(ev, fetchJson(n))} : Apply(k)

(***************************************************************************)
(* Two invocations of getAllEvents on the shared apiClient, interleaved at *)
(* their awaits.  The class ApiClient declares no field, and base,         *)
(* pageSize, collectedMap, merge, strategyUsed etc. are locals of the      *)
(* call: calls[p] holds those of invocation p.                             *)
(***************************************************************************)
\* the server's answer to a request of one of the two invocations: it
\* rejects a request for more than MaxServed items, and otherwise sends an
\* honest page or the first page again (a direct request may also get a
\* short page)
HonestStart(req) == IF req.key = "offset" THEN req.val ELSE (req.val - 1) * req.limit

TwoOutcomes(req) ==
    {Net("reject", 0, JsNull)} \cup
    {Net("http", 200, JsArr(s)) :
        s \in IF req.limit > MaxServed THEN {}
              ELSE IF req.key = "" THEN {Arr(0, req.limit), Arr(0, ShortLen)}
              ELSE {Arr(a, req.limit) : a \in {0, HonestStart(req)}}}

\* Own with the collected set of invocation 1 used by both invocations
Own_SharedMap(p) == [calls[p] EXCEPT !.ev.collectedMap = calls[1].ev.collectedMap]

\* the locals invocation p resumes with: its own
Own(p) == calls[p]

\* invocation c after it went on as k says, its pending request having given r
Resumed(c, r, k) ==
    [pc |-> k.pc, reqs |-> c.reqs \o k.req, out |-> k.out, ev |-> k.ev,
     resps |-> Append(c.resps, r)]

\* the code of getAllEvents from the await that gave r to the next await or
\* to the return
StepCall(c, r) ==
    CHOOSE x \in {Resumed(c, r, k) :
                    k \in {IF c.ev.phase = "probe" THEN ProbeStep(c.ev, r)
                                                   ELSE PageStep(c.ev, r)}} : TRUE

\* an invocation at its first await
Called == [NotCalled EXCEPT !.pc = "await", !.reqs = <<FirstProbe>>, !.ev = EvCalled]

Two_Call(p) ==
    /\ calls[p].pc = "idle"
    /\ calls' = [calls EXCEPT ![p] = Called]
    /\ UNCHANGED <<one, box>>

Two_Resume(p) ==
    /\ calls[p].pc = "await"
    /\ \E n \in TwoOutcomes(calls[p].reqs[Len(calls[p].reqs)]) :
         calls' = [calls EXCEPT ![p] = StepCall(Own(p), fetchJson(n))]
    /\ UNCHANGED <<one, box>>

(***************************************************************************)
(* normalizeExternalUrl                                                    *)
(***************************************************************************)
\* the characters String.prototype.trim strips that the inputs contain
IsWhiteSpace(c) == c \in {" ", "\t", "\n"}

RECURSIVE trimStart(_)
trimStart(s) ==
    IF Len(s) > 0 /\ IsWhiteSpace(s[1]) THEN trimStart(Tail(s)) ELSE s

RECURSIVE trimEnd(_)
trimEnd(s) ==
    IF Len(s) > 0 /\ IsWhiteSpace(s[Len(s)]) THEN trimEnd(SubSeq(s, 1, Len(s) - 1)) ELSE s

\* raw.trim()
trim(s) == trimEnd(trimStart(s))

\* /^prefix/i.test(s), prefix given in lower case
testPrefixI(s, prefix) ==
    /\ Len(s) >= Len(prefix)
    /\ toLowerCase(SubSeq(s, 1, Len(prefix))) = prefix

HttpPrefix == <<"h", "t", "t", "p", ":", "/", "/">>
HttpsPrefix == <<"h", "t", "t", "p", "s", ":", "/", "/">>
JavascriptPrefix == <<"j", "a", "v", "a", "s", "c", "r", "i", "p", "t", ":">>
DataPrefix == <<"d", "a", "t", "a", ":">>

\* /^https?:\/\//i.test(s)
IsHttpUrl(s) == testPrefixI(s, HttpPrefix) \/ testPrefixI(s, HttpsPrefix)

\* IsDangerous without the `i` flag
IsDangerous_CaseSensitive(s) ==
    \/ (Len(s) >= Len(JavascriptPrefix) /\ SubSeq(s, 1, Len(JavascriptPrefix)) = JavascriptPrefix)
    \/ (Len(s) >= Len(DataPrefix) /\ SubSeq(s, 1, Len(DataPrefix)) = DataPrefix)

\* /^(javascript:|data:)/i.test(s)
IsDangerous(s) == testPrefixI(s, JavascriptPrefix) \/ testPrefixI(s, DataPrefix)

normalizeExternalUrl(raw) ==
    IF raw.k = "undefined" \/ Len(raw.v) = 0 THEN JsNull
    ELSE LET trimmed == trim(raw.v) IN
         IF Len(trimmed) = 0 THEN JsNull
         ELSE IF IsHttpUrl(trimmed) THEN JsStr(trimmed)
         ELSE IF IsDangerous(trimmed) THEN JsNull
         ELSE JsStr(HttpsPrefix \o trimmed)

UrlLeading ==
    {<<>>,
     <<" ">>,
     <<"\t", " ">>}
UrlTrailing ==
    {<<>>,
     <<" ">>,
     <<" ", "\n">>}
UrlHeads ==
    {<<>>,
     <<"h", "t", "t", "p", ":", "/", "/">>,
     <<"h", "t", "t", "p", "s", ":", "/", "/">>,
     <<"H", "T", "T", "P", ":", "/", "/">>,
     <<"H", "t", "T", "p", "S", ":", "/", "/">>,
     <<"h", "t", "t", "p", ":", "/">>,
     <<"h", "t", "t", "p", "s", ":">>,
     <<"h", "t", "t", "p", "x", ":", "/", "/">>,
     <<"f", "t", "p", ":", "/", "/">>,
     <<"/", "/">>,
     <<"j", "a", "v", "a", "s", "c", "r", "i", "p", "t", ":">>,
     <<"J", "a", "v", "a", "S", "c", "r", "i", "p", "t", ":">>,
     <<"j", "a", "v", "a", " ", "s", "c", "r", "i", "p", "t", ":">>,
     <<"j", "a", "v", "a", "s", "c", "r", "i", "p", "t">>,
     <<"d", "a", "t", "a", ":">>,
     <<"D", "A", "T", "A", ":">>,
     <<"d", "a", "t", "a">>,
     <<"m", "a", "i", "l", "t", "o", ":">>}
UrlTails ==
    {<<>>,
     <<"e", "x", "a", "m", "p", "l", "e", ".", "c", "o", "m">>,
     <<"a", "l", "e", "r", "t", "(", "1", ")">>,
     <<"x", ".", "c", "o", "m", "/", "a", " ", "b">>,
     <<"j", "a", "v", "a", "s", "c", "r", "i", "p", "t", ":", "a", "l", "e", "r", "t", "(", "1", ")">>,
     <<"h", "t", "t", "p", "s", ":", "/", "/", "x", ".", "c", "o", "m">>}

RawUrls ==
    {JsUndefined} \cup
    {JsStr(w1 \o h \o t \o w2) : w1 \in UrlLeading, h \in UrlHeads, t \in UrlTails,
                                   w2 \in UrlTrailing}

NormalizeExternalUrl ==
    /\ pc = "idle"
    /\ \E raw \in RawUrls :
         /\ op' = "normalizeExternalUrl"
         /\ arg' = raw
         /\ pc' = "done"
         /\ out' = Return(normalizeExternalUrl(raw))
    /\ UNCHANGED <<reqs, net, got, allFailed, ev, ar, nSettled, calls, box>>

(***************************************************************************)
(* The search boxes: EventList and MusicEventFinder (event-list.tsx) and   *)
(* ArtistList (connection-test.tsx).  Each keystroke calls handleSearch    *)
(* with the text of the input; the three handlers have the same shape.     *)
(***************************************************************************)
Components == {"EventList", "MusicEventFinder", "ArtistList"}

\* the list a component holds after its initial load: the mock dataset or
\* items of the server
LoadedLists(c) ==
    {IF c = "ArtistList" THEN mockArtists ELSE mockEvents, Arr(0, ShortLen)}

\* the texts typed into the box
SearchInputs ==
    {<<>>, <<" ">>, <<"a", "r", "c", "t", "i", "c">>, <<"z", "z">>}

\* !query.trim()
IsBlank(query) == Len(trim(query)) = 0

\* the request searchEvents / searchArtists issues for `query`
SearchReq(c, query) ==
    Req(IF c = "ArtistList" THEN "/artists/search" ELSE "/events/search", 0, "q", query, "", 0)

\* apiClient.searchEvents(query) / searchArtists(query), its request having
\* given r
SearchOutcome(c, query, r) ==
    IF c = "ArtistList" THEN searchArtists(query, r) ELSE searchEvents(query, r)

\* the catch of handleSearch: the list filtered on the client
ClientFilter(c, items, query) ==
    IF c = "ArtistList" THEN SelectSeq(items, LAMBDA a : artistMatches(a, query))
    ELSE SelectSeq(items, LAMBDA e : eventMatches(e, query))

\* s without its j-th element
RemoveAt(s, j) == SubSeq(s, 1, j - 1) \o SubSeq(s, j + 1, Len(s))

\* the component is mounted and its load effect has run: the loaded list is
\* in `events` / `artists` and in the filtered list, the box is shown
Box_Mount ==
    /\ box.comp = "none"
    /\ \E c \in Components : \E l \in LoadedLists(c) :
         box' = [BoxInit EXCEPT !.comp = c, !.items = l, !.filtered = JsArr(l)]
    /\ UNCHANGED <<one, calls>>

\* a keystroke: handleSearch(query) from its call to its return (blank
\* query) or to its await
Box_HandleSearch ==
    /\ box.comp # "none"
    /\ box.keys < MaxKeys
    /\ \E query \in SearchInputs :
         box' = IF IsBlank(query)
                THEN [box EXCEPT !.searchQuery = query, !.filtered = JsArr(box.items),
                                 !.keys = @ + 1]
                ELSE [box EXCEPT !.searchQuery = query, !.searchLoading = TRUE,
                                 !.pending = Append(@, query), !.keys = @ + 1]
    /\ UNCHANGED <<one, calls>>

\* the search of one of the suspended handleSearch calls settles, in any
\* order, and that call runs from its await to its end
Box_SearchSettles ==
    /\ box.comp # "none"
    /\ \E j \in 1..Len(box.pending) :
         \E n \in NetOutcomes(SearchReq(box.comp, box.pending[j])) :
         \E o \in {SearchOutcome(box.comp, box.pending[j], fetchJson(n))} :
            box' = [box EXCEPT
                      !.filtered = IF o.k = "return" THEN o.v
                                   ELSE JsArr(ClientFilter(box.comp, box.items, box.pending[j])),
                      !.searchLoading = FALSE,
                      !.pending = RemoveAt(@, j)]
    /\ UNCHANGED <<one, calls>>

Next ==
    \/ CheckHealth_Call \/ CheckHealth_Resume
    \/ GetStats_Call \/ GetStats_Resume
    \/ GetTopArtists_Call \/ GetTopArtists_Resume
    \/ GetTopEvents_Call \/ GetTopEvents_Resume
    \/ GetArtist_Call \/ GetArtist_Resume
    \/ GetEvent_Call \/ GetEvent_Resume
    \/ SearchArtists_Call \/ SearchArtists_Resume
    \/ SearchEvents_Call \/ SearchEvents_Resume
    \/ GetAllArtists_Call \/ GetAllArtists_Resume
    \/ GetAllEvents_Call \/ GetAllEvents_ProbeResume \/ GetAllEvents_PageResume
    \/ NormalizeExternalUrl

Spec == Init /\ [][Next]_vars

\* every request settles: fetchJson resolves, throws, or is aborted by
\* AbortSignal.timeout(5000)
SpecLive ==
    /\ Spec
    /\ WF_vars(GetAllEvents_ProbeResume)
    /\ WF_vars(GetAllEvents_PageResume)

\* two invocations of getAllEvents, in any interleaving
NextTwo == \E p \in {1, 2} : Two_Call(p) \/ Two_Resume(p)

SpecTwo == Init /\ [][NextTwo]_vars

\* a search box: keystrokes and search responses, in any interleaving
NextSearch == Box_Mount \/ Box_HandleSearch \/ Box_SearchSettles

SpecSearch == Init /\ [][NextSearch]_vars


(***************************************************************************)
(* Properties.                                                             *)
(***************************************************************************)
FetchAll == {"getAllEvents", "getAllArtists"}

Returned == pc = "done" /\ out.k = "return"

\* the number of requests of reqs that have settled
Settled == IF pc = "await" THEN Len(reqs) - 1 ELSE Len(reqs)

NoDup(s) == Cardinality(Keys(s)) = Len(s)

\* C1: in getAllEvents the collected set never holds more than maxTotal
\* (1000) items, and the returned sequence has at most 1000 items.
C1_AtMostMaxTotal ==
    op = "getAllEvents" =>
        /\ Len(ev.collectedMap) <= maxTotal
        /\ (Returned /\ out.v.k = "arr") => Len(out.v.v) <= maxTotal

\* C2 as stated: whatever the server answers, the sequence getAllEvents
\* returns holds each identifier exactly once.
C2_ReturnedIdsUnique ==
    (op = "getAllEvents" /\ Returned /\ out.v.k = "arr") => NoDup(out.v.v)

\* the positions of s that hold an identifier for the first time
FirstPositions(s) == {j \in 1..Len(s) : \A n \in 1..(j - 1) : s[n] # s[j]}

\* r lists the identifiers of s once each, in the order of their first
\* occurrence in s
IsFirstSeenOrder(r, s) ==
    IF NoDup(s) THEN r = s
    ELSE \A fp \in {FirstPositions(s)} :
            /\ Len(r) = Cardinality(fp)
            /\ \A j \in fp : r[Cardinality({n \in fp : n <= j})] = s[j]

\* s without the identifiers of the set keys, order kept
Without(s, keys) == SelectSeq(s, LAMBDA x : x \notin keys)

\* a step of getAllEvents that seeds the collected set from the base page
SeedStep == op = "getAllEvents" /\ ev.phase = "probe" /\ ev'.phase = "page"

\* a step of getAllEvents that merges a page into the collected set
MergeStep ==
    /\ op = "getAllEvents" /\ ev.phase = "page" /\ pc = "await"
    /\ got'.k = "arr"

\* a step in which getAllEvents returns the collected set
MaterializeStep ==
    /\ op = "getAllEvents" /\ pc = "await" /\ pc' = "done"
    /\ ev'.pageSize > 0

\* C2 (amended): when getAllEvents returns the materialised collected set,
\* the result holds each identifier exactly once, in the order in which the
\* identifiers were first seen across the base page and the merged pages:
\* the base page seeds the set in first-seen order, every merged page appends
\* its new identifiers in first-seen order and moves nothing, and the set is
\* returned as it stands.
C2_CollectedFirstSeen ==
    /\ [](op = "getAllEvents" => NoDup(ev.collectedMap))
    /\ [][SeedStep => \A base \in {ev'.base.v} :
                          IsFirstSeenOrder(ev'.collectedMap, base)]_vars
    /\ [][MergeStep =>
            \A old \in {ev.collectedMap}, new \in {ev'.collectedMap} :
            \A oldKeys \in {Keys(old)} :
            \A fresh \in {Without(got'.v, oldKeys)},
               added \in {SubSeq(new, Len(old) + 1, Len(new))} :
               /\ Len(new) >= Len(old)
               /\ SubSeq(new, 1, Len(old)) = old
               /\ IsFirstSeenOrder(added, fresh)]_vars
    /\ [][MaterializeStep => out' = Return(JsArr(ev'.collectedMap))]_vars

\* C2 witness: a result built from a base page with repeated identifiers and
\* from a merged page that repeated identifiers already collected
C2_Witness ==
    /\ op = "getAllEvents" /\ Returned /\ ev.strategyUsed # "null"
    /\ Len(ev.collectedMap) < Len(ev.base.v) + Len(got.v)
    /\ ~NoDup(ev.base.v)
    /\ Len(out.v.v) > Len(ev.base.v)

\* C3: when a direct-limit request of a fetch-all call is answered with
\* fewer items than it asked for, the call returns exactly that response and
\* issues no further request.
C3_ShortProbeReturned ==
    (/\ op \in FetchAll
     /\ Settled >= 1
     /\ reqs[Max(Settled, 1)].strat = "direct"
     /\ got.k = "arr"
     /\ Len(got.v) < reqs[Max(Settled, 1)].limit)
    => (pc = "done" /\ out = Return(got) /\ Len(reqs) = Settled)

\* C3 witness: after failed probes, a probe answered one item short ended
\* the call
C3_Witness ==
    /\ op = "getAllEvents" /\ pc = "done" /\ Len(reqs) = 3
    /\ got.k = "arr" /\ Len(got.v) = reqs[3].limit - 1
    /\ out = Return(got)

\* C4: getAllEvents and getAllArtists always return a sequence, and an error
\* that no probing or paging step handles yields the mock dataset.
C4_AlwaysSequence ==
    (op \in FetchAll /\ pc = "done") =>
        /\ out.k = "return" /\ out.v.k = "arr"
        /\ (op = "getAllArtists" /\ got.k = "fail") => out.v = JsArr(mockArtists)
        /\ (op = "getAllEvents" /\ ev.base.k # "arr") => out.v = JsArr(mockEvents)

\* C5: if every network call fails, getAllArtists returns exactly the 4 mock
\* artists and getAllEvents exactly the 2 mock events.
C5_AllFailedGivesMocks ==
    (op \in FetchAll /\ pc = "done" /\ allFailed) =>
        /\ out.k = "return" /\ out.v.k = "arr"
        /\ op = "getAllArtists" => (Len(out.v.v) = 4 /\ out.v.v = <<-1, -2, -3, -4>>)
        /\ op = "getAllEvents" => (Len(out.v.v) = 2 /\ out.v.v = <<-1, -2>>)

\* C5 witness: all five probes of getAllEvents failed
C5_Witness ==
    /\ op = "getAllEvents" /\ pc = "done" /\ allFailed /\ Len(reqs) = 5
    /\ net.kind = "timeout"

\* the higher-level methods of the client
ClientMethods ==
    {"checkHealth", "getStats", "getTopArtists", "getTopEvents", "getAllArtists",
     "getAllEvents", "searchArtists", "searchEvents", "getArtist", "getEvent"}

GetById == {"getArtist", "getEvent"}

\* the ids of the mock items of the kind a get-by-id method looks up
MockIdsOf(method) == IF method = "getArtist" THEN {1, 2, 3, 4} ELSE {1, 2}

\* C6 as stated: no higher-level client method ever ends by raising an error.
C6_NeverThrows == (op \in ClientMethods /\ pc = "done") => out.k = "return"

\* a value built from the static fallback data only
IsFallbackValue(val) ==
    \/ val.k = "arr" /\ \A j \in 1..Len(val.v) : val.v[j] < 0
    \/ val.k = "item" /\ val.v[1] < 0
    \/ val = JsRec([status |-> "disconnected", message |-> "Java backend not accessible"])
    \/ val = JsRec([artists |-> 4, events |-> 2])

\* C6 (amended): a higher-level client method ends by raising an error only
\* in getArtist and getEvent, exactly when the request failed and the id is
\* absent from the mock dataset; in every other case it returns, and when all
\* its requests failed the value returned is built from the fallback data.
C6_OnlyNotFoundThrown ==
    (op \in ClientMethods /\ pc = "done") =>
        /\ out.k \in {"return", "throw"}
        /\ out.k = "throw" <=>
              (op \in GetById /\ got.k = "fail" /\ arg.v[1] \notin MockIdsOf(op))
        /\ (out.k = "return" /\ allFailed) => IsFallbackValue(out.v)

\* C6 witness: getStats answered its failed request with the mock counts
C6_Witness ==
    /\ op = "getStats" /\ pc = "done" /\ net.kind = "reject"
    /\ out = Return(JsRec([artists |-> 4, events |-> 2]))

\* the rank of the place that issued a request, in program order
StratRank(name) ==
    CASE name = "direct" -> 0
      [] name = "offset" -> 1
      [] name = "page0" -> 2
      [] name = "page1" -> 3

\* a step of getAllEvents in which a non-empty page added nothing
StalePageStep ==
    /\ op = "getAllEvents" /\ pc = "await" /\ ev.phase = "page"
    /\ got'.k = "arr" /\ Len(got'.v) > 0
    /\ ev'.collectedMap = ev.collectedMap

\* the last request of the log is of no earlier scheme than any request
\* before it, and its URL was not requested before
LastRequestIsNew ==
    \A a \in 1..(Len(reqs) - 1) :
        /\ StratRank(reqs[a].strat) <= StratRank(reqs[Len(reqs)].strat)
        /\ Url(reqs[a]) # Url(reqs[Len(reqs)])

\* C7: when a fetched page adds no new identifier, the call ends or goes on
\* with a later scheme; schemes are requested in order and never revisited,
\* and no URL is requested twice, so that neither a further page of that
\* scheme nor that page is requested afterwards.
C7_StalePageEndsScheme ==
    /\ [][StalePageStep => (pc' = "done" \/ ev'.si > ev.si)]_vars
    /\ [](op = "getAllEvents" => LastRequestIsNew)

\* C7 witness: the offset scheme made progress on pages 1 and 2, and ended on
\* a full page 3 that added nothing although bound and loop end were not reached
C7_Witness ==
    /\ op = "getAllEvents" /\ pc = "done" /\ ev.si = 1 /\ ev.i = 3
    /\ got.k = "arr" /\ Len(got.v) = ev.pageSize
    /\ Len(ev.collectedMap) < maxTotal
    /\ Len(reqs) = 4

\* C8: checkHealth issues one request to /health; a failure gives
\* "disconnected" with the fixed message, a success gives "connected" with
\* the server's message when present and the default otherwise.
C8_HealthOutcome ==
    (op = "checkHealth" /\ pc = "done") =>
        /\ Len(reqs) = 1 /\ reqs[1].path = "/health"
        /\ out.k = "return" /\ out.v.k = "rec"
        /\ got.k = "fail" =>
              out.v.v[1] = [status |-> "disconnected",
                            message |-> "Java backend not accessible"]
        /\ got.k # "fail" =>
              /\ out.v.v[1].status = "connected"
              /\ out.v.v[1].message =
                    IF got.k = "rec" /\ got.v[1].message \notin {Undefined, ""}
                    THEN got.v[1].message
                    ELSE "Backend is healthy"

\* C9: getArtist and getEvent return the server item when the request
\* succeeds; when it fails they return the mock item with that id, and raise
\* "not found" exactly when the mock dataset has no such id.
C9_GetById ==
    (op \in GetById /\ pc = "done") =>
        /\ got.k # "fail" => out = Return(got)
        /\ (got.k = "fail" /\ arg.v[1] \in MockIdsOf(op)) =>
              out = Return(JsItem(0 - arg.v[1]))
        /\ (got.k = "fail" /\ arg.v[1] \notin MockIdsOf(op)) =>
              out = Throw(IF op = "getArtist" THEN "Artist not found"
                                              ELSE "Event not found")

\* C9 witness: getEvent failed for an id that only the mock artists have
C9_Witness ==
    /\ op = "getEvent" /\ pc = "done" /\ arg = JsNum(3)
    /\ got.k = "fail" /\ out.k = "throw"

\* the part of s between its first and its last non-blank character
Trimmed(s) ==
    LET inner == {j \in 1..Len(s) : s[j] \notin {" ", "\t", "\n"}}
    IN IF inner = {} THEN <<>>
       ELSE SubSeq(s, CHOOSE j \in inner : \A n \in inner : j <= n,
                      CHOOSE j \in inner : \A n \in inner : j >= n)

\* s starts with p (given in lower case), letter case ignored
StartsWithFold(s, p) ==
    Len(s) >= Len(p) /\ \A j \in 1..Len(p) : toLowerCaseChar(s[j]) = p[j]

HasHttpScheme(s) ==
    \/ StartsWithFold(s, <<"h", "t", "t", "p", ":", "/", "/">>)
    \/ StartsWithFold(s, <<"h", "t", "t", "p", "s", ":", "/", "/">>)

HasScriptScheme(s) ==
    \/ StartsWithFold(s, <<"j", "a", "v", "a", "s", "c", "r", "i", "p", "t", ":">>)
    \/ StartsWithFold(s, <<"d", "a", "t", "a", ":">>)

\* C10: normalizeExternalUrl trims its input; blank gives null; an input
\* with an http:// or https:// scheme is returned trimmed and otherwise
\* unchanged; a javascript: or data: scheme gives null; every other input
\* gets "https://" in front.  A result that is not null starts with http://
\* or https:// and never with javascript: or data:.
C10_NormalizeExternalUrl ==
    (op = "normalizeExternalUrl" /\ pc = "done") =>
        LET t == IF arg.k = "str" THEN Trimmed(arg.v) ELSE <<>>
        IN /\ out.k = "return"
           /\ out.v = (IF Len(t) = 0 THEN JsNull
                       ELSE IF HasHttpScheme(t) THEN JsStr(t)
                       ELSE IF HasScriptScheme(t) THEN JsNull
                       ELSE JsStr(<<"h", "t", "t", "p", "s", ":", "/", "/">> \o t))
           /\ out.v.k = "str" => (HasHttpScheme(out.v.v) /\ ~HasScriptScheme(out.v.v))

\* C10 witness: a javascript: URL in mixed case, with blanks around it, was
\* rejected
C10_Witness ==
    /\ op = "normalizeExternalUrl" /\ pc = "done" /\ arg.k = "str"
    /\ Len(arg.v) > 12 /\ arg.v[1] = " " /\ arg.v[2] = "J" /\ arg.v[Len(arg.v)] = " "
    /\ HasScriptScheme(Trimmed(arg.v))
    /\ out.v = JsNull

\* the collected set as the base page seeded it
SeedOf(e) == NewMap(e.base.v)

\* a step of getAllEvents that starts a scheme after another one
LaterSchemeStep == op = "getAllEvents" /\ ev.si >= 1 /\ ev'.si # ev.si

\* the requests of the log go through direct, offset, page0, page1 in this
\* order, no scheme skipped and none revisited
SchemesInOrder ==
    \A a \in 1..(Len(reqs) - 1) :
        StratRank(reqs[a + 1].strat) - StratRank(reqs[a].strat) \in {0, 1}

\* C11: the schemes are tried in the order offset, page0, page1; a later
\* scheme is started only while the collected set is still the seeded base
\* page (no earlier scheme added an item), so that once a scheme has added
\* an item no request of a later scheme follows; and a call that ends with
\* items added has adopted the scheme that was running.
C11_FirstProgressAdopted ==
    /\ [](op = "getAllEvents" => SchemesInOrder)
    /\ [][LaterSchemeStep =>
            \A seeded \in {SeedOf(ev)} :
                /\ ev'.si = ev.si + 1
                /\ ev.collectedMap = seeded /\ ev'.collectedMap = seeded
                /\ ev'.strategyUsed = "null"]_vars
    /\ []((op = "getAllEvents" /\ pc = "done" /\ ev.si >= 1) =>
            \A seeded \in {SeedOf(ev)} :
                (ev.collectedMap # seeded) <=> (ev.strategyUsed = strategies[ev.si]))

\* C11 witness: offset added nothing, page0 added items and was adopted, and
\* no request of page1 was issued
C11_Witness ==
    /\ op = "getAllEvents" /\ pc = "done" /\ ev.strategyUsed = "page0"
    /\ Len(ev.collectedMap) > Len(ev.base.v)
    /\ \E a \in 1..Len(reqs) : reqs[a].strat = "offset"
    /\ \A a \in 1..Len(reqs) : reqs[a].strat # "page1"

\* the sizes a fetch-all method asks for, in program order, and the dataset
\* it falls back to
SizesOf(method) == IF method = "getAllEvents" THEN directLimits ELSE artistLimits
MocksOf(method) == IF method = "getAllEvents" THEN mockEvents ELSE mockArtists

\* the position of the pending direct request in the list of sizes
ProbeIndex == IF op = "getAllEvents" THEN ev.li ELSE ar.li

\* the sizes of the direct requests of the log are strictly descending
SizesDescending ==
    \A a \in 1..Len(reqs), b \in 1..Len(reqs) :
        (a < b /\ reqs[a].strat = "direct" /\ reqs[b].strat = "direct")
            => reqs[a].limit > reqs[b].limit

\* a step in which a direct request of fetch-all method m fails
FailedProbeStep(m) ==
    /\ op = m /\ pc = "await" /\ Pending.strat = "direct"
    /\ got'.k = "fail"

\* after a failed direct request the next size of the list is requested;
\* after the last one the call returns the mock dataset, nothing requested
NextSizeOrMocks(m) ==
    IF ProbeIndex < Len(SizesOf(m))
    THEN /\ pc' = "await"
         /\ reqs' = Append(reqs, Req(Pending.path, SizesOf(m)[ProbeIndex + 1], "", 0,
                                     "direct", ProbeIndex + 1))
    ELSE /\ pc' = "done" /\ reqs' = reqs
         /\ allFailed' => out' = Return(JsArr(MocksOf(m)))

\* C12 as stated, for both fetch-all methods: sizes are requested in
\* descending order, a failed request is followed by the request for the
\* next size, and the mock dataset is returned when all sizes failed.
C12_ProbeDescendingAll ==
    /\ [](op \in FetchAll => SizesDescending)
    /\ [][\A m \in FetchAll : FailedProbeStep(m) => NextSizeOrMocks(m)]_vars

\* C12 (amended): getAllEvents requests the sizes 500, 400, 300, 250, 200 in
\* descending order; a failed request is followed by the request for the
\* next smaller size, earlier sizes are not requested again, and when all
\* five fail the call returns the mock events without a pagination request.
\* getAllArtists requests 50, 100, 250, 500 in ascending order, and its
\* first failed request ends the call with the mock artists.
C12_EventsProbeDescending ==
    /\ [](op = "getAllEvents" => (SizesDescending /\ LastRequestIsNew))
    /\ [][FailedProbeStep("getAllEvents") => NextSizeOrMocks("getAllEvents")]_vars
    /\ []((op = "getAllEvents" /\ pc = "done" /\ allFailed) =>
            /\ out = Return(JsArr(mockEvents))
            /\ \A a \in 1..Len(reqs) : reqs[a] = Req("/events/top", directLimits[a], "", 0, "direct", a))
    /\ [](op = "getAllArtists" =>
            \A a \in 1..Len(reqs) : reqs[a] = Req("/artists/top", artistLimits[a], "", 0, "direct", a))
    /\ [][FailedProbeStep("getAllArtists") =>
            (pc' = "done" /\ reqs' = reqs /\ out' = Return(JsArr(mockArtists)))]_vars

\* C12 witness: the five sizes of getAllEvents were requested in turn, each
\* request failed (the last with an HTTP error status), the mock events came back
C12_Witness ==
    /\ op = "getAllEvents" /\ pc = "done" /\ allFailed
    /\ Len(reqs) = Len(directLimits) /\ net.kind = "http" /\ net.status = 500
    /\ out = Return(JsArr(mockEvents))

\* a step in which a direct request of getAllEvents is answered with exactly
\* the number of items it asked for
ExactProbeStep ==
    /\ op = "getAllEvents" /\ pc = "await" /\ ev.phase = "probe"
    /\ got'.k = "arr" /\ Len(got'.v) = Pending.limit

\* C13: the first direct request of getAllEvents answered with exactly the
\* requested number of items ends the probe phase: that response becomes
\* the base page and seeds the collected set, and the next request is page
\* index 1 of the offset scheme, with the page size taken from the base
\* page; no direct request follows a pagination request.
C13_ExactProbeIsBase ==
    /\ [][ExactProbeStep =>
            \A seeded \in {NewMap(got'.v)} :
                /\ ev'.base = got' /\ ev'.phase = "page"
                /\ ev'.collectedMap = seeded
                /\ ev'.pageSize = Min(Len(got'.v), PageSizeCap)
                /\ pc' = "await"
                /\ reqs' = Append(reqs, Req("/events/top", ev'.pageSize, "offset",
                                            ev'.pageSize, "offset", 1))]_vars
    /\ [](op = "getAllEvents" => SchemesInOrder)

\* C13 witness: four sizes brought no array, limit 200 was answered with 200
\* items, which are the base page, and offset page 1 is requested
C13_Witness ==
    /\ op = "getAllEvents" /\ pc = "await" /\ Len(reqs) = 6
    /\ reqs[5].strat = "direct" /\ reqs[5].limit = 200
    /\ Len(ev.base.v) = 200 /\ ev.collectedMap = ev.base.v
    /\ reqs[6] = Req("/events/top", 200, "offset", 200, "offset", 1)

\* a step of getAllEvents in which a page shorter than the reference page
\* size brings at least one new identifier
ShortFreshPageStep ==
    /\ op = "getAllEvents" /\ pc = "await" /\ ev.phase = "page"
    /\ got'.k = "arr" /\ Len(got'.v) > 0 /\ Len(got'.v) < ev.pageSize
    /\ \E j \in 1..Len(got'.v) : got'.v[j] \notin Keys(ev.collectedMap)

\* C14: when a fetched page adds at least one new item and is shorter than
\* the reference page size, the scheme is adopted, the call returns at once
\* without a further request, and the result is the collected set as it
\* was, followed by the new items of the page.
C14_ShortPageEndsCall ==
    [][ShortFreshPageStep =>
        \A old \in {ev.collectedMap} :
        \A oldKeys \in {Keys(old)} :
        \A fresh \in {Without(got'.v, oldKeys)} :
            /\ pc' = "done" /\ reqs' = reqs
            /\ ev'.success /\ ev'.strategyUsed = strategies[ev.si]
            /\ out'.k = "return" /\ out'.v.k = "arr"
            /\ Len(out'.v.v) = Len(old) + Cardinality(Keys(fresh))
            /\ SubSeq(out'.v.v, 1, Len(old)) = old
            /\ Keys(got'.v) \subseteq Keys(out'.v.v)]_vars

\* C14 witness: the base page had 200 items, offset page 1 came back with
\* a few items, all new: the call ended there with base + new items
C14_Witness ==
    /\ op = "getAllEvents" /\ pc = "done" /\ Len(reqs) = 6
    /\ ev.strategyUsed = "offset" /\ ev.i = 1 /\ ev.pageSize = 200
    /\ Len(ev.base.v) = 200 /\ Len(got.v) = ShortLen
    /\ out.k = "return" /\ Len(out.v.v) = Len(ev.base.v) + ShortLen

\* a step of getAllEvents in which the request for a page fails
PageErrorStep ==
    /\ op = "getAllEvents" /\ pc = "await" /\ ev.phase = "page"
    /\ got'.k = "fail"

\* C15: a failed page request ends its scheme at once: the call returns the
\* collected set as it stands, or requests page index 1 of the next scheme;
\* the collected set is left as it was, it only ever grows at its end, and
\* no URL is requested twice, so that the failed page is not retried and
\* the items of the earlier pages are in the result.
C15_PageErrorEndsScheme ==
    /\ [][PageErrorStep =>
            /\ ev'.collectedMap = ev.collectedMap
            /\ \/ /\ pc' = "done" /\ reqs' = reqs
                  /\ out' = Return(JsArr(ev.collectedMap))
               \/ /\ pc' = "await" /\ ev.si < Len(strategies)
                  /\ ~ev.success
                  /\ reqs' = Append(reqs, buildUrl(ev.si + 1, 1, ev.pageSize))]_vars
    /\ [][(op = "getAllEvents" /\ ev.phase = "page") =>
            /\ Len(ev'.collectedMap) >= Len(ev.collectedMap)
            /\ SubSeq(ev'.collectedMap, 1, Len(ev.collectedMap)) = ev.collectedMap
            /\ pc' = "done" => out' = Return(JsArr(ev'.collectedMap))]_vars
    /\ [](op = "getAllEvents" => LastRequestIsNew)

\* C15 witness: offset pages 1 and 2 added items, the request for page 3
\* timed out, and the call returned base and both pages
C15_Witness ==
    /\ op = "getAllEvents" /\ pc = "done" /\ got.k = "fail" /\ net.kind = "timeout"
    /\ ev.si = 1 /\ ev.i = 3 /\ ev.strategyUsed = "offset"
    /\ Len(ev.collectedMap) > Len(ev.base.v)
    /\ out = Return(JsArr(ev.collectedMap))

\* the pagination parameter of page index i in a scheme
PageParam(strat, i, pageSize) ==
    CASE strat = "offset" -> i * pageSize
      [] strat = "page0" -> i
      [] strat = "page1" -> i + 1

InFlight == Len(reqs) - nSettled

\* C17: in a fetch-all invocation at most one request is in flight at any
\* moment (exactly one while the invocation is suspended, none otherwise),
\* and a request is issued, one at a time, only when every request issued
\* before it has settled.
C17_Sequential ==
    /\ [](op \in FetchAll => InFlight = (IF pc = "await" THEN 1 ELSE 0))
    /\ [][(op' \in FetchAll /\ reqs' # reqs) =>
            /\ Len(reqs') = Len(reqs) + 1
            /\ nSettled' = Len(reqs)
            /\ SubSeq(reqs', 1, Len(reqs)) = reqs]_vars

\* C17 witness: getAllEvents waits for its eighth request after the seventh
\* timed out
C17_Witness ==
    /\ op = "getAllEvents" /\ pc = "await" /\ Len(reqs) = 8 /\ nSettled = 7
    /\ net.kind = "timeout"

\* an invocation of getAllEvents run alone, its requests answered in turn
\* with the results of resps from position j on
RECURSIVE Replay(_, _, _)
Replay(c, resps, j) ==
    IF j > Len(resps) THEN c
    ELSE CHOOSE x \in {Replay(n, resps, j + 1) : n \in {StepCall(c, resps[j])}} : TRUE

RunAlone(resps) == Replay(Called, resps, 1)

CountOf(schemes) == Cardinality({a \in 1..Len(reqs) : reqs[a].strat \in schemes})

\* C19: provided every request settles, an invocation of getAllEvents ends;
\* it issues at most 5 direct-limit requests and at most 27 pagination
\* requests, 32 requests in all.
C19_Terminates ==
    /\ [](op = "getAllEvents" =>
            /\ CountOf({"direct"}) <= 5
            /\ CountOf({"offset", "page0", "page1"}) <= 27
            /\ Len(reqs) <= 32)
    /\ (op = "getAllEvents") ~> (op = "getAllEvents" /\ pc = "done")

\* C19 witness: an invocation that ended after five direct requests, one
\* page of offset, one of page0 and the nine pages of page1
C19_Witness ==
    /\ op = "getAllEvents" /\ pc = "done"
    /\ CountOf({"direct"}) = 5 /\ CountOf({"offset"}) = 1
    /\ CountOf({"page0"}) = 1 /\ CountOf({"page1"}) = 9

\* some direct request of the invocation was answered with a JSON array: it
\* is the base page (an empty one ends the call at once, so that it is also
\* the last result)
ArrayProbe == ev.base.k = "arr" /\ (Len(ev.base.v) > 0 \/ got.k = "arr")

IsPrefix(s, t) == Len(s) <= Len(t) /\ SubSeq(t, 1, Len(s)) = s

\* a step in which a pagination request of getAllEvents settles
PageAnswerStep == op = "getAllEvents" /\ ev.phase = "page" /\ pc = "await"

\* getAllEvents has ended after it started the pagination discovery
PagedOut == op = "getAllEvents" /\ pc = "done" /\ ev.pageSize > 0

\* C21: the sequence getAllEvents returns after the pagination discovery
\* begins with the identifiers of the base page in base-page order; the
\* collected set only grows (what it held stays where it was); an item is
\* added only from the page of the pending request, which belongs to the
\* running scheme, and after a scheme has added an item no other scheme is
\* started and that scheme is the adopted one; while no scheme has made
\* progress the collected set is the seeded base page.
C21_BaseThenOneScheme ==
    /\ [](PagedOut =>
            \A seeded \in {SeedOf(ev)} :
                /\ out = Return(JsArr(ev.collectedMap))
                /\ IsPrefix(seeded, out.v.v)
                /\ (ev.strategyUsed = "null") <=> (out.v.v = seeded))
    /\ []((op = "getAllEvents" /\ ev.pageSize > 0 /\ ~ev.success) =>
            ev.collectedMap = SeedOf(ev))
    /\ [][PageAnswerStep =>
            \A old \in {ev.collectedMap}, new \in {ev'.collectedMap} :
                /\ IsPrefix(old, new)
                /\ Pending.strat = strategies[ev.si]
                /\ (new # old) =>
                      /\ got'.k = "arr"
                      /\ (Keys(new) \ Keys(old)) \subseteq Keys(got'.v)
                /\ (new # old \/ ev.success) =>
                      /\ ev'.success /\ ev'.si = ev.si
                      /\ pc' = "await" => reqs'[Len(reqs')].strat = Pending.strat
                      /\ pc' = "done" => ev'.strategyUsed = Pending.strat]_vars

\* C21 witness: offset and page0 ended without progress, page1 added items
\* over several pages, and the result is the base page followed by them
C21_Witness ==
    /\ PagedOut /\ ev.strategyUsed = "page1" /\ ev.i >= 2
    /\ Len(out.v.v) > Len(ev.base.v) + ev.pageSize
    /\ SubSeq(out.v.v, 1, Len(ev.base.v)) = ev.base.v

\* a step in which the pending request of getAllArtists settles
ArtistsAnswerStep == op = "getAllArtists" /\ pc = "await"

\* the limit of the pending request of getAllArtists
ArtistsLimit == artistLimits[Len(reqs)]

\* C22: getAllArtists requests the limits 50, 100, 250, 500 in this order,
\* one request per limit; a response shorter than its limit ends the call
\* with that response; a response that is not shorter is followed by the
\* request for the next limit, and after the last limit it is the result; a
\* failed request, the first or a later one, ends the call with the mock
\* artists; and a call that ends without a failed request returns the
\* response of the last request issued.
C22_ArtistsAscending ==
    /\ [](op = "getAllArtists" =>
            /\ Len(reqs) <= Len(artistLimits)
            /\ \A a \in 1..Len(reqs) :
                  reqs[a] = Req("/artists/top", artistLimits[a], "", 0, "direct", a)
            /\ \A a \in 1..(Len(reqs) - 1) : reqs[a].limit < reqs[a + 1].limit)
    /\ [][ArtistsAnswerStep =>
            CASE got'.k = "fail" ->
                   pc' = "done" /\ reqs' = reqs /\ out' = Return(JsArr(mockArtists))
              [] got'.k = "arr" /\ Len(got'.v) < ArtistsLimit ->
                   pc' = "done" /\ reqs' = reqs /\ out' = Return(got')
              [] got'.k = "arr" /\ Len(got'.v) >= ArtistsLimit ->
                   IF Len(reqs) < Len(artistLimits)
                   THEN pc' = "await" /\ Len(reqs') = Len(reqs) + 1 /\ out' = NoOut
                   ELSE pc' = "done" /\ reqs' = reqs /\ out' = Return(got')
              [] OTHER -> pc' = "done" /\ reqs' = reqs /\ out' = Return(got')]_vars
    /\ []((op = "getAllArtists" /\ pc = "done") =>
            out = IF got.k = "fail" THEN Return(JsArr(mockArtists)) ELSE Return(got))

\* C22 witness: the requests for 50 and 100 items were answered in full, the
\* request for 250 failed, and the mock artists came back
C22_Witness ==
    /\ op = "getAllArtists" /\ pc = "done" /\ Len(reqs) = 3
    /\ ar.last.k = "arr" /\ Len(ar.last.v) = artistLimits[2]
    /\ got = Fail /\ out = Return(JsArr(mockArtists))

\* what the box may show for `query` once its own search has settled: the
\* full list for a blank query, else a result of the search for that query
ResultsFor(c, items, query) ==
    IF IsBlank(query) THEN {JsArr(items)}
    ELSE {SearchOutcome(c, query, fetchJson(n)).v : n \in NetOutcomes(SearchReq(c, query))}

\* C23 as stated: in a search box, once every search in flight has settled,
\* the filtered list shown is the result for the query entered last (the
\* full list when that query is blank).
C23_LatestQueryShown ==
    (box.comp # "none" /\ box.pending = <<>>) =>
        box.filtered \in ResultsFor(box.comp, box.items, box.searchQuery)
====
